---- MODULE Spec2Model ----
(***************************************************************************)
(* Model of app.py: a Streamlit script that is re-run from top to bottom   *)
(* on every widget interaction.  One action of the model is one run of the *)
(* script for one interaction.  The state is what survives between runs:   *)
(* st.session_state, the widgets the last run displayed, the relational    *)
(* database and the PGVector collection.                                   *)
(*                                                                         *)
(* Strings are sequences of tokens, so that an f-string is a concatenation *)
(* and "begins with" is a test on the first token.                         *)
(*                                                                         *)
(* A widget can be used only if the last run displayed it: a run that ends *)
(* with an exception at line 132 displays nothing of lines 133-181.        *)
(* The calls into the libraries (SQLAlchemy, PGVector, the agent, st.write *)
(* of the answer) either return or raise; which, is an input of the run.   *)
(* Whether the store's search cuts off at a distance is fixed per          *)
(* behaviour by score_threshold.                                           *)
(***************************************************************************)
EXTENDS Integers, Sequences, FiniteSets, TLC

\* ------------------------------------------------------------------ bounds
MaxRows == 2      \* rows held by the database, all tables together
MaxDocs == 2      \* Documents held by the collection
MaxSubs == 1      \* chat submissions since the log was last seeded

\* -------------------------------------------------------------- vocabulary
DefaultTables == <<"employees", "departments", "products", "orders">>
TableNames == {DefaultTables[i] : i \in 1..Len(DefaultTables)}
Vals == {1}                          \* values of the first (only) column

\* "messages" not in st.session_state
NoLog == <<[role |-> "absent", content |-> <<>>]>>
NoThreshold == -1                    \* the store returns the nearest, always
NoCount == -1                        \* the run returned nothing (it raised)
AddOk == -1                          \* add_documents returned
None == <<"None">>                   \* chat_input / run with no value

Seed == [role |-> "assistant", content |-> <<"How can I help you?">>]

Range(s) == {s[i] : i \in 1..Len(s)}

\* str(x) of a column value
Str(v) == IF v = 1 THEN "1" ELSE IF v = 2 THEN "2" ELSE "?"

\* --------------------------------------------------------------- documents
\* f"Table: {table}\n" + "\n".join(f"{col}: {val}" ...), one column "id"
RenderRow(table, row) == <<"Table: ", table, "\n", "id", ": ", Str(row)>>

MakeDoc(table, row) ==
    [page_content |-> RenderRow(table, row),
     metadata |-> [table |-> table, id |-> Str(row)]]

\* ------------------------------------------------------------ vector store
\* Distance of two texts under the embedding model: 0 for the same text,
\* 1 for two texts about the same table, 2 otherwise.
Dist(a, b) ==
    IF a = b THEN 0
    ELSE IF Len(a) >= 2 /\ Len(b) >= 2 /\ a[2] = b[2] THEN 1
    ELSE 2

\* position of the closest candidate, the earliest stored on a tie
Closest(coll, cand, text) ==
    CHOOSE i \in cand : \A j \in cand :
        \/ Dist(coll[i].page_content, text) < Dist(coll[j].page_content, text)
        \/ /\ Dist(coll[i].page_content, text) = Dist(coll[j].page_content, text)
           /\ i <= j

RECURSIVE Ranked(_, _, _, _)
Ranked(coll, cand, text, k) ==
    IF k = 0 \/ cand = {} THEN <<>>
    ELSE LET i == Closest(coll, cand, text)
         IN  <<coll[i]>> \o Ranked(coll, cand \ {i}, text, k - 1)

\* a search that only ever returns exact matches
SimilaritySearchExact(coll, thr, text, k) ==
    Ranked(coll, {i \in 1..Len(coll) : coll[i].page_content = text}, text, k)

\* vector_store.similarity_search(text, k): up to k Documents, closest first,
\* among those within the store's distance threshold (all, if it has none)
SimilaritySearch(coll, thr, text, k) ==
    Ranked(coll,
           {i \in 1..Len(coll) :
               thr = NoThreshold \/ Dist(coll[i].page_content, text) <= thr},
           text, k)

\* ---------------------------------------------------------------- database
EmptyDb == [t \in TableNames |-> <<>>]

RECURSIVE SumRows(_, _)
SumRows(dbv, ts) ==
    IF ts = {} THEN 0
    ELSE LET t == CHOOSE x \in ts : TRUE
         IN  Len(dbv[t]) + SumRows(dbv, ts \ {t})

TotalRows(dbv) == SumRows(dbv, TableNames)

\* the statements typed into the editor: INSERT into two of the tables, and
\* a statement that does not parse
EditedTables == {"employees", "products"}

Statements ==
    [op : {"insert"}, table : EditedTables, val : Vals]
    \cup [op : {"invalid"}, table : {"none"}, val : {0}]

\* effect of a statement once executed
Apply(dbv, command) ==
    IF command.op = "insert"
    THEN [dbv EXCEPT ![command.table] = Append(@, command.val)]
    ELSE dbv

SqlFailures == {"none", "create_engine", "connect", "execute", "commit", "close"}

SqlSuccess == <<"Query executed successfully!">>
SqlError(e) == <<"Error executing query:", " ", e>>

\* a variant that reports success whenever the statement executed
execute_sql_command_nocommit(dbv, command, fail) ==
    IF fail \in {"none", "commit"}
    THEN [result |-> SqlSuccess, raised |-> FALSE,
          committed |-> fail = "none",
          db |-> IF fail = "none" THEN Apply(dbv, command) ELSE dbv]
    ELSE [result |-> SqlError(fail), raised |-> FALSE,
          committed |-> fail = "close",
          db |-> IF fail = "close" THEN Apply(dbv, command) ELSE dbv]

\* execute_sql_command(command); fail names the call that raises
execute_sql_command(dbv, command, fail) ==
    IF fail = "none"
    THEN [result |-> SqlSuccess, raised |-> FALSE, committed |-> TRUE,
          db |-> Apply(dbv, command)]
    ELSE [result |-> SqlError(fail), raised |-> FALSE,
          committed |-> fail = "close",
          db |-> IF fail = "close" THEN Apply(dbv, command) ELSE dbv]

\* --------------------------------------------------------------- ingestion
\* The calls of populate_vector_store that can raise before add_documents:
\* create_engine/connect, then per table the SELECT and one probe per row.
RECURSIVE ScanSteps(_, _)
ScanSteps(dbv, tabs) ==
    IF tabs = <<>> THEN <<>>
    ELSE LET t == Head(tabs)
         IN  <<[op |-> "scan", table |-> t, row |-> 0]>>
             \o [i \in 1..Len(dbv[t]) |->
                    [op |-> "probe", table |-> t, row |-> dbv[t][i]]]
             \o ScanSteps(dbv, Tail(tabs))

Steps(dbv, tabs) ==
    <<[op |-> "connect", table |-> "none", row |-> 0]>> \o ScanSteps(dbv, tabs)

\* a probe that also sees the Documents collected so far in this run
ProbedStoreWithPending(coll, documents) == coll \o documents

\* what vector_store.similarity_search reads at line 110: the collection;
\* the pending batch is a local list the store has not been given
ProbedStore(coll, documents) == coll

\* an admission test that lets every Document through
AdmitAll(existing_docs) == TRUE

\* "if not existing_docs"
Admit(existing_docs) == existing_docs = <<>>

\* The loop of lines 103-112 over the first n steps: the probes made and the
\* pending batch.
RECURSIVE Scan(_, _, _, _, _, _)
Scan(steps, i, n, coll, thr, acc) ==
    IF i > n THEN acc
    ELSE IF steps[i].op # "probe"
    THEN Scan(steps, i + 1, n, coll, thr, acc)
    ELSE LET doc == MakeDoc(steps[i].table, steps[i].row)
             existing_docs ==
                 SimilaritySearch(ProbedStore(coll, acc.documents), thr,
                                  doc.page_content, 1)
             probe == [doc |-> doc, existing_docs |-> existing_docs]
         IN  Scan(steps, i + 1, n, coll, thr,
                  [probes |-> Append(acc.probes, probe),
                   documents |-> IF Admit(existing_docs)
                                 THEN Append(acc.documents, doc)
                                 ELSE acc.documents])

\* a run that hands over what it has collected when a scan or probe raises
ScanRaisedFlush(coll, acc, op) ==
    [raised |-> TRUE, failed |-> op, probes |-> acc.probes,
     documents |-> acc.documents,
     addCalls |-> IF acc.documents = <<>> THEN <<>> ELSE <<acc.documents>>,
     count |-> NoCount, before |-> coll, collection |-> coll \o acc.documents]

\* an exception inside the with block leaves the function at once
ScanRaised(coll, acc, op) ==
    [raised |-> TRUE, failed |-> op, probes |-> acc.probes,
     documents |-> acc.documents, addCalls |-> <<>>,
     count |-> NoCount, before |-> coll, collection |-> coll]

\* a run that reports the number of rows it scanned
FlushCountScanned(coll, acc, addKeep) ==
    IF acc.documents = <<>>
    THEN [raised |-> FALSE, failed |-> "none", probes |-> acc.probes,
          documents |-> acc.documents, addCalls |-> <<>>,
          count |-> Len(acc.probes), before |-> coll, collection |-> coll]
    ELSE IF addKeep = AddOk
    THEN [raised |-> FALSE, failed |-> "none", probes |-> acc.probes,
          documents |-> acc.documents, addCalls |-> <<acc.documents>>,
          count |-> Len(acc.probes), before |-> coll,
          collection |-> coll \o acc.documents]
    ELSE [raised |-> TRUE, failed |-> "add", probes |-> acc.probes,
          documents |-> acc.documents, addCalls |-> <<acc.documents>>,
          count |-> NoCount, before |-> coll,
          collection |-> coll \o SubSeq(acc.documents, 1, addKeep)]

\* lines 114-117; addKeep is AddOk, or the number of Documents the store
\* had persisted when add_documents raised
Flush(coll, acc, addKeep) ==
    IF acc.documents = <<>>
    THEN [raised |-> FALSE, failed |-> "none", probes |-> acc.probes,
          documents |-> acc.documents, addCalls |-> <<>>,
          count |-> 0, before |-> coll, collection |-> coll]
    ELSE IF addKeep = AddOk
    THEN [raised |-> FALSE, failed |-> "none", probes |-> acc.probes,
          documents |-> acc.documents, addCalls |-> <<acc.documents>>,
          count |-> Len(acc.documents), before |-> coll,
          collection |-> coll \o acc.documents]
    ELSE [raised |-> TRUE, failed |-> "add", probes |-> acc.probes,
          documents |-> acc.documents, addCalls |-> <<acc.documents>>,
          count |-> NoCount, before |-> coll,
          collection |-> coll \o SubSeq(acc.documents, 1, addKeep)]

\* populate_vector_store(db, vector_store, tables); failAt is the step that
\* raises (0: none)
populate_vector_store(dbv, coll, thr, tabs, failAt, addKeep) ==
    LET steps == Steps(dbv, tabs)
        n == IF failAt = 0 THEN Len(steps) ELSE failAt - 1
        acc == Scan(steps, 1, n, coll, thr, [probes |-> <<>>, documents |-> <<>>])
    IN  IF failAt # 0 THEN ScanRaised(coll, acc, steps[failAt].op)
        ELSE Flush(coll, acc, addKeep)

\* the ways add_documents can end for a pending batch
AddOutcomes(documents) ==
    IF documents = <<>> THEN {AddOk}
    ELSE {AddOk} \cup 0..(Len(documents) - 1)

NoRun ==
    [raised |-> FALSE, failed |-> "none", probes |-> <<>>, documents |-> <<>>,
     addCalls |-> <<>>, count |-> NoCount, before |-> <<>>, collection |-> <<>>]

\* ------------------------------------------------------------ hybrid search
ChatError(e) == <<"An error occurred: ", e>>

Queries == {<<"Ask: ", "products">>}
Answers == {<<"answer">>}
AgentRaises == <<"raise">>

\* the f-string of lines 142-150
EnhancedPrompt(context, query) ==
    <<"Use both vector search results and SQL to answer the question.",
      "Vector search context:">> \o context
    \o <<"Now use SQL queries as needed to provide a complete answer to: ">>
    \o query \o <<"Be thorough but concise. Combine both sources.">>

\* "\n\n".join(doc.page_content for doc in vector_results)
RECURSIVE Join(_)
Join(docs) ==
    IF docs = <<>> THEN <<>>
    ELSE IF Len(docs) = 1 THEN docs[1].page_content
    ELSE docs[1].page_content \o <<"\n\n">> \o Join(Tail(docs))

\* run_hybrid_search(query); searchFails: similarity_search raises;
\* agentOut: what sql_agent.run returns, or AgentRaises
run_hybrid_search(coll, thr, query, searchFails, agentOut) ==
    IF searchFails
    THEN [response |-> ChatError("SearchError"), prompt |-> None, k |-> 3]
    ELSE LET vector_results == SimilaritySearch(coll, thr, query, 3)
             prompt == EnhancedPrompt(Join(vector_results), query)
         IN  [response |-> IF agentOut = AgentRaises
                           THEN ChatError("AgentError") ELSE agentOut,
              prompt |-> prompt, k |-> 3]

\* lines 168-181; writeFails: st.write(response) raises
HandleQuery(msgs, query, response, writeFails) ==
    LET withUser == Append(msgs, [role |-> "user", content |-> query])
        withAnswer == Append(withUser, [role |-> "assistant", content |-> response])
    IN  IF writeFails
        THEN Append(withAnswer,
                    [role |-> "assistant", content |-> ChatError("WriteError")])
        ELSE withAnswer

\* a reset that keeps the old turns and appends the greeting
ManageChatHistoryKeep(msgs, clearPressed) ==
    IF msgs = NoLog THEN <<Seed>>
    ELSE IF clearPressed THEN Append(msgs, Seed)
    ELSE msgs

\* lines 159-160
ManageChatHistory(msgs, clearPressed) ==
    IF msgs = NoLog \/ clearPressed THEN <<Seed>> ELSE msgs

\* -------------------------------------------------------------------- state
VARIABLES
    refresh_embeddings,  \* st.session_state["refresh_embeddings"]
    messages,            \* st.session_state["messages"], or NoLog
    show_sql_editor,     \* the "Enable SQL Table Editor" checkbox
    widgets,             \* the widgets the last run displayed
    db,                  \* the rows of each table of the database
    collection,          \* the Documents of the PGVector collection
    score_threshold,     \* distance threshold of the store's search
    tables,              \* the tables argument of populate_vector_store
    event,               \* the interaction that caused the last run
    ran,                 \* the last run called populate_vector_store
    run,                 \* what that call did
    sql,                 \* what execute_sql_command did in the last run
    chat,                \* what the query handling did in the last run
    reset,               \* whether the last run seeded the log, and over what
    subs                 \* queries submitted since the log was seeded

vars == <<refresh_embeddings, messages, show_sql_editor, widgets, db,
          collection, score_threshold, tables, event, ran, run, sql, chat,
          reset, subs>>

Thresholds == {NoThreshold, 0}
TableLists == {DefaultTables, <<>>, <<"products">>}

NoCommand == [op |-> "none", table |-> "none", val |-> 0]

NoSql == [called |-> FALSE, op |-> "none", fail |-> "none", result |-> None,
          raised |-> FALSE, changed |-> FALSE]
NoChat == [asked |-> FALSE, query |-> None, prompt |-> None, agentOut |-> None,
           response |-> None, before |-> 0]

NoReset == [seeded |-> FALSE, prior |-> 0]

InitCommon ==
    /\ refresh_embeddings = FALSE
    /\ messages = NoLog
    /\ show_sql_editor = FALSE
    /\ widgets = {}
    /\ db = EmptyDb
    /\ collection = <<>>
    /\ score_threshold \in Thresholds
    /\ event = "none"
    /\ ran = FALSE
    /\ run = NoRun
    /\ sql = NoSql
    /\ chat = NoChat
    /\ reset = NoReset
    /\ subs = <<>>

Init == InitCommon /\ tables = DefaultTables

InitTables == InitCommon /\ tables \in TableLists

\* One run of the script for the interaction ev.
Script(ev, command, sqlFail, query, searchFails, agentOut, writeFails) ==
    LET flag == (ev = "refresh") \/ refresh_embeddings            \* 51-52, 130
        sqlRes == execute_sql_command(db, command, sqlFail)        \* 93-95
        db1 == IF ev = "sql" THEN sqlRes.db ELSE db
        steps == Steps(db1, tables)
    IN
    \E failAt \in (IF flag THEN 0..Len(steps) ELSE {0}) :
    \E addKeep \in (IF flag /\ failAt = 0
                    THEN AddOutcomes(Scan(steps, 1, Len(steps), collection,
                                          score_threshold,
                                          [probes |-> <<>>, documents |-> <<>>]).documents)
                    ELSE {AddOk}) :
    LET r == populate_vector_store(db1, collection, score_threshold, tables,
                                   failAt, addKeep)               \* 132
        aborted == flag /\ r.raised
        coll1 == IF flag THEN r.collection ELSE collection
        seeded == messages = NoLog \/ ev = "clear"                 \* 159
        msgs1 == ManageChatHistory(messages, ev = "clear")
        hs == run_hybrid_search(coll1, score_threshold, query, searchFails, agentOut)
    IN
    /\ Len(coll1) <= MaxDocs
    /\ event' = ev
    /\ db' = db1
    /\ sql' = IF ev = "sql"
              THEN [called |-> TRUE, op |-> command.op, fail |-> sqlFail,
                    result |-> sqlRes.result, raised |-> sqlRes.raised,
                    changed |-> db1 # db]
              ELSE NoSql
    /\ show_sql_editor' = IF ev = "toggle" THEN ~show_sql_editor ELSE show_sql_editor
    /\ ran' = flag
    /\ run' = IF flag THEN r ELSE NoRun
    /\ collection' = coll1
    /\ refresh_embeddings' = aborted                               \* 134
    /\ UNCHANGED <<score_threshold, tables>>
    /\ IF aborted
       THEN \* the exception ends the run at line 132
            /\ messages' = messages
            /\ chat' = NoChat
            /\ reset' = NoReset
            /\ subs' = IF ev = "submit" THEN Append(subs, query) ELSE subs
            /\ widgets' = {"inputs", "refresh", "checkbox"}
                          \cup (IF show_sql_editor' THEN {"execute"} ELSE {})
       ELSE /\ messages' = IF ev = "submit"
                           THEN HandleQuery(msgs1, query, hs.response, writeFails)
                           ELSE msgs1
            /\ chat' = IF ev = "submit"
                       THEN [asked |-> TRUE, query |-> query, prompt |-> hs.prompt,
                             agentOut |-> agentOut, response |-> hs.response,
                             before |-> Len(msgs1)]
                       ELSE NoChat
            /\ reset' = IF seeded
                        THEN [seeded |-> TRUE,
                              prior |-> IF messages = NoLog THEN 0 ELSE Len(messages)]
                        ELSE NoReset
            /\ subs' = IF seeded THEN <<>>
                       ELSE IF ev = "submit" THEN Append(subs, query) ELSE subs
            /\ widgets' = {"inputs", "refresh", "checkbox", "chat"}
                          \cup (IF show_sql_editor' THEN {"execute"} ELSE {})
                          \cup (IF messages # NoLog THEN {"clear"} ELSE {})

\* the first run of the script, when the page is opened
FirstRun ==
    /\ widgets = {}
    /\ Script("load", NoCommand, "none", None, FALSE, None, FALSE)

\* a run caused by editing one of the sidebar's text inputs
EditInput ==
    /\ "inputs" \in widgets
    /\ Script("input", NoCommand, "none", None, FALSE, None, FALSE)

\* ticking or unticking "Enable SQL Table Editor"
ToggleSqlEditor ==
    /\ "checkbox" \in widgets
    /\ Script("toggle", NoCommand, "none", None, FALSE, None, FALSE)

\* pressing "Refresh Vector Embeddings"
PressRefresh ==
    /\ "refresh" \in widgets
    /\ Script("refresh", NoCommand, "none", None, FALSE, None, FALSE)

\* pressing "Execute SQL Command" with a statement in the text area
ExecuteSql ==
    /\ "execute" \in widgets
    /\ \E command \in Statements, sqlFail \in SqlFailures :
          /\ command.op = "invalid" => sqlFail \in {"create_engine", "connect", "execute"}
          /\ command.op = "insert" => TotalRows(db) < MaxRows
          /\ Script("sql", command, sqlFail, None, FALSE, None, FALSE)

\* pressing "Clear message history"
ClearHistory ==
    /\ "clear" \in widgets
    /\ Script("clear", NoCommand, "none", None, FALSE, None, FALSE)

\* submitting a query in the chat input
SubmitQuery ==
    /\ "chat" \in widgets
    /\ Len(subs) < MaxSubs
    /\ \E query \in Queries, searchFails \in BOOLEAN,
          agentOut \in Answers \cup {AgentRaises}, writeFails \in BOOLEAN :
          /\ searchFails => agentOut = AgentRaises
          /\ Script("submit", NoCommand, "none", query, searchFails, agentOut, writeFails)

Next ==
    \/ FirstRun
    \/ EditInput
    \/ ToggleSqlEditor
    \/ PressRefresh
    \/ ExecuteSql
    \/ ClearHistory
    \/ SubmitQuery

Spec == Init /\ [][Next]_vars

SpecTables == InitTables /\ [][Next]_vars

\* ------------------------------------------------------------------- claims
IsPrefix(s, t) == Len(s) <= Len(t) /\ SubSeq(t, 1, Len(s)) = s

\* the Documents the last run added to the collection
Added == SubSeq(collection, Len(run.before) + 1, Len(collection))

\* the Documents of the probes of the last run that returned nothing
RECURSIVE EmptyProbed(_)
EmptyProbed(probes) ==
    IF probes = <<>> THEN <<>>
    ELSE (IF Head(probes).existing_docs = <<>> THEN <<Head(probes).doc>> ELSE <<>>)
         \o EmptyProbed(Tail(probes))

\* C1: in every ingestion run a row whose top-1 probe returned something is
\* in no batch passed to add_documents, and every Document the run passes on
\* or adds to the collection is one whose own probe returned nothing.
C1_DedupContract ==
    ran =>
        /\ \A i \in 1..Len(run.probes) :
              run.probes[i].existing_docs # <<>> =>
                 \A c \in 1..Len(run.addCalls) :
                    run.probes[i].doc \notin Range(run.addCalls[c])
        /\ \A c \in 1..Len(run.addCalls) :
              Range(run.addCalls[c]) \subseteq Range(EmptyProbed(run.probes))
        /\ Range(Added) \subseteq Range(EmptyProbed(run.probes))
        /\ IsPrefix(run.before, collection)

\* a run in which one row was rejected by its probe and another admitted
C1_Witness ==
    /\ ran
    /\ \E i \in 1..Len(run.probes) : run.probes[i].existing_docs # <<>>
    /\ \E i \in 1..Len(run.probes) :
          /\ run.probes[i].existing_docs = <<>>
          /\ run.probes[i].doc \in Range(Added)

\* C5: execute_sql_command never raises; it answers "Query executed
\* successfully!" only if no call failed, and if creating the engine,
\* connecting, executing or committing failed it answers a string beginning
\* "Error executing query:" and the database is as before.
C5_SqlNeverRaises ==
    sql.called =>
        /\ ~sql.raised
        /\ sql.result = SqlSuccess => sql.fail = "none"
        /\ sql.fail \in {"create_engine", "connect", "execute", "commit"} =>
              /\ sql.result[1] = "Error executing query:"
              /\ ~sql.changed
        /\ sql.op = "invalid" => sql.result[1] = "Error executing query:"

\* an INSERT whose commit failed
C5_Witness ==
    /\ sql.called
    /\ sql.op = "insert"
    /\ sql.fail = "commit"
    /\ sql.result[1] = "Error executing query:"

\* C6: a run calls add_documents at most once, only after every table has
\* been scanned; a run that returns reports the size of that call's batch,
\* which is the rows whose probe was empty, each tagged with its table; with
\* no such row, as with an empty table list, it makes no call and, when it
\* returns, reports 0.
C6_OneFlush ==
    ran =>
        /\ Len(run.addCalls) <= 1
        /\ run.addCalls # <<>> =>
              /\ run.failed \in {"none", "add"}
              /\ Len(run.probes) = Len(SelectSeq(Steps(db, tables), LAMBDA st : st.op = "probe"))
              /\ run.addCalls[1] = EmptyProbed(run.probes)
              /\ \A d \in Range(run.addCalls[1]) :
                    /\ \E i \in 1..Len(tables) : d.metadata.table = tables[i]
                    /\ d.page_content[2] = d.metadata.table
        /\ ~run.raised =>
              IF EmptyProbed(run.probes) = <<>>
              THEN run.count = 0 /\ run.addCalls = <<>> /\ collection = run.before
              ELSE /\ Len(run.addCalls) = 1
                   /\ run.count = Len(run.addCalls[1])
                   /\ collection = run.before \o run.addCalls[1]
        /\ tables = <<>> =>
              /\ run.addCalls = <<>>
              /\ ~run.raised => run.count = 0

\* two rows of products, both admitted: one call of two Documents, report 2
C6_Witness ==
    /\ ran
    /\ ~run.raised
    /\ run.count = 2
    /\ Len(run.addCalls) = 1
    /\ \A d \in Range(run.addCalls[1]) : d.metadata.table = "products"

\* C7: every probe of a run returns what a search of the collection as it
\* was when the run started returns, so rows with the same rendered content
\* get the same verdict and can both be in the batch.
C7_ProbesSeeStartOfRun ==
    ran =>
        /\ \A i \in 1..Len(run.probes) :
              run.probes[i].existing_docs =
                 SimilaritySearch(run.before, score_threshold,
                                  run.probes[i].doc.page_content, 1)
        /\ \A i, j \in 1..Len(run.probes) :
              run.probes[i].doc.page_content = run.probes[j].doc.page_content =>
                 run.probes[i].existing_docs = run.probes[j].existing_docs

\* the collection holds two Documents with the same content, added together
C7_Witness ==
    /\ ran
    /\ ~run.raised
    /\ Len(run.addCalls) = 1
    /\ Len(run.addCalls[1]) = 2
    /\ run.addCalls[1][1].page_content = run.addCalls[1][2].page_content
    /\ \E i, j \in 1..Len(collection) :
          i # j /\ collection[i].page_content = collection[j].page_content

\* C8: when connecting, a SELECT or a probe raises, the run ends with the
\* exception, has called add_documents zero times and leaves the collection
\* as it was, and the script run ends there.
C8_NoPartialResult ==
    ran /\ run.raised /\ run.failed \in {"connect", "scan", "probe"} =>
        /\ run.addCalls = <<>>
        /\ collection = run.before
        /\ run.count = NoCount
        /\ "chat" \notin widgets

\* a SELECT raised after rows of an earlier table had been collected
C8_Witness ==
    /\ ran
    /\ run.raised
    /\ run.failed = "scan"
    /\ run.documents # <<>>
    /\ collection = run.before

\* C10: with a store that has no distance threshold, a run that starts with
\* a non-empty collection makes no add_documents call, leaves the collection
\* as it is and, if it returns, reports 0.
C10_OnlyWhileEmpty ==
    ran /\ score_threshold = NoThreshold /\ run.before # <<>> =>
        /\ run.addCalls = <<>>
        /\ run.documents = <<>>
        /\ collection = run.before
        /\ ~run.raised => run.count = 0

\* such a run over a row that was inserted after the collection was filled
C10_Witness ==
    /\ ran
    /\ score_threshold = NoThreshold
    /\ run.before # <<>>
    /\ ~run.raised
    /\ run.count = 0
    /\ \E i \in 1..Len(run.probes) : run.probes[i].doc \notin Range(run.before)

\* C4: the run of "Clear message history" and the first run seed the log,
\* and a run that seeds the log leaves it equal to the one greeting turn.
C4_ClearSeeds ==
    /\ event \in {"clear", "load"} => reset.seeded
    /\ reset.seeded => messages = <<Seed>>

\* a clear over a log that held more than the greeting
C4_Witness ==
    /\ event = "clear"
    /\ reset.seeded
    /\ reset.prior > 1
    /\ messages = <<Seed>>

\* C2: every submitted query appends the user turn and exactly one assistant
\* turn, whose content is the agent's answer, non-empty and verbatim, or a
\* string beginning "An error occurred: ".
C2_OneAssistantTurn ==
    /\ event = "submit" => chat.asked
    /\ chat.asked =>
          /\ Len(messages) = chat.before + 2
          /\ messages[chat.before + 1] = [role |-> "user", content |-> chat.query]
          /\ messages[chat.before + 2].role = "assistant"
          /\ \/ /\ messages[chat.before + 2].content = chat.agentOut
                /\ chat.agentOut \in Answers
                /\ chat.agentOut # <<>>
             \/ messages[chat.before + 2].content[1] = "An error occurred: "

\* the log is the greeting followed by one (user, assistant) pair per
\* submission, in submission order
LogShape ==
    /\ Len(messages) = 1 + 2 * Len(subs)
    /\ messages[1] = Seed
    /\ \A n \in 1..Len(subs) :
          /\ messages[2 * n] = [role |-> "user", content |-> subs[n]]
          /\ messages[2 * n + 1].role = "assistant"

\* C3: between resets the log only grows at its end, and after N
\* submissions it is the greeting followed by N (user, assistant) pairs.
C3_AppendOnlyPairs ==
    [][/\ messages' # NoLog => LogShape'
       /\ messages # NoLog /\ ~reset'.seeded => IsPrefix(messages, messages')]_vars

\* C9: populate_vector_store runs only in the script run caused by pressing
\* "Refresh Vector Embeddings".
C9_NoRetry == [][ran' => event' = "refresh"]_vars

====
